---- MODULE Spec2Model ----
(***************************************************************************)
(* Model of the procurement dashboard (src/app.py): the text and numeric   *)
(* cleansing of load_data, the label wrapper wrap_text and the top10       *)
(* aggregation.  Python strings are sequences of one-character strings.    *)
(***************************************************************************)
EXTENDS Integers, Sequences, FiniteSets, TLC

VARIABLES
    phase,      \* position of the run: "input" before the operation, "done" after
    text,       \* wrap_text: argument text
    width,      \* wrap_text: argument width
    wrapped,    \* wrap_text: returned string
    cell,       \* load_data: one raw Equipment/Department/Service cell
    cleaned,    \* load_data: that cell after the text cleanse
    qtyCell,    \* load_data: raw "QTY Requested" cell
    priceCell,  \* load_data: raw "Unit Price RWF" cell
    rec,        \* load_data: the numeric columns of the record
    df,         \* the data frame handed to top10: sequence of records
    metric,     \* top10: argument metric
    result      \* top10: returned rows, a sequence of [label, value]

vars == <<phase, text, width, wrapped, cell, cleaned, qtyCell, priceCell,
          rec, df, metric, result>>

(***************************************************************************)
(* Bounds of the model                                                     *)
(***************************************************************************)
MaxTextLen == 5     \* longest text given to wrap_text
MaxWidth == 4       \* largest width given to wrap_text
MaxCellLen == 3     \* longest free-form raw cell
MaxRows == 3        \* rows appended to the initial sheet

(***************************************************************************)
(* Generic helpers                                                         *)
(***************************************************************************)
Min(a, b) == IF a <= b THEN a ELSE b

RECURSIVE SeqsUpTo(_, _)
SeqsUpTo(S, n) ==
    IF n = 0 THEN {<<>>}
    ELSE LET shorter == SeqsUpTo(S, n - 1)
         IN  shorter \cup {Append(s, c) : s \in {t \in shorter : Len(t) = n - 1}, c \in S}

IsPrefix(p, s) == Len(p) <= Len(s) /\ SubSeq(s, 1, Len(p)) = p

NoValue == <<"?">>
NoRecord == [Quantity |-> NoValue]

(***************************************************************************)
(* wrap_text (src/app.py:123-132)                                          *)
(***************************************************************************)
Whitespace == {" ", "\t"}
WrapAlphabet == {"a", "b", " ", "\t"}
BR == <<"<", "b", "r", ">">>

\* str.split(): words are the maximal runs of non-whitespace characters
RECURSIVE SplitFrom(_, _, _, _)
SplitFrom(s, i, cur, acc) ==
    IF i > Len(s)
    THEN IF cur = <<>> THEN acc ELSE Append(acc, cur)
    ELSE IF s[i] \in Whitespace
         THEN SplitFrom(s, i + 1, <<>>, IF cur = <<>> THEN acc ELSE Append(acc, cur))
         ELSE SplitFrom(s, i + 1, Append(cur, s[i]), acc)

Split(s) == SplitFrom(s, 1, <<>>, <<>>)

\* WrapLoop with the fit test written < instead of <=
RECURSIVE WrapLoopLt(_, _, _, _, _)
WrapLoopLt(words, i, lines, line, w) ==
    IF i > Len(words)
    THEN Append(lines, line)
    ELSE IF Len(line) + Len(words[i]) < w
         THEN WrapLoopLt(words, i + 1, lines,
                         line \o (IF line # <<>> THEN <<" ">> ELSE <<>>) \o words[i], w)
         ELSE WrapLoopLt(words, i + 1, Append(lines, line), words[i], w)

\* the for loop of wrap_text followed by the final lines.append(line)
RECURSIVE WrapLoop(_, _, _, _, _)
WrapLoop(words, i, lines, line, w) ==
    IF i > Len(words)
    THEN Append(lines, line)
    ELSE IF Len(line) + Len(words[i]) <= w
         THEN WrapLoop(words, i + 1, lines,
                       line \o (IF line # <<>> THEN <<" ">> ELSE <<>>) \o words[i], w)
         ELSE WrapLoop(words, i + 1, Append(lines, line), words[i], w)

WrapLines(t, w) == WrapLoop(Split(t), 1, <<>>, <<>>, w)

\* lines[:3]
FirstThree(lines) == SubSeq(lines, 1, Min(3, Len(lines)))

\* lines[:2]
FirstTwo(lines) == SubSeq(lines, 1, Min(2, Len(lines)))

\* "<br>".join(lines)
RECURSIVE JoinBr(_)
JoinBr(lines) ==
    IF lines = <<>> THEN <<>>
    ELSE IF Len(lines) = 1 THEN lines[1]
    ELSE lines[1] \o BR \o JoinBr(Tail(lines))

wrap_text(t, w) == JoinBr(FirstTwo(WrapLines(t, w)))

InitWrap ==
    /\ phase = "input"
    /\ text \in SeqsUpTo(WrapAlphabet, MaxTextLen)
    /\ width \in 1..MaxWidth
    /\ wrapped = NoValue
    /\ cell = NoValue /\ cleaned = NoValue
    /\ qtyCell = NoValue /\ priceCell = NoValue /\ rec = NoRecord
    /\ df = <<>> /\ metric = "none" /\ result = <<>>

WrapText ==
    /\ phase = "input"
    /\ wrapped' = wrap_text(text, width)
    /\ phase' = "done"
    /\ UNCHANGED <<text, width, cell, cleaned, qtyCell, priceCell, rec, df, metric, result>>

NextWrap == WrapText

SpecWrap == InitWrap /\ [][NextWrap]_vars

(***************************************************************************)
(* Reading the returned label back: its segments and their words           *)
(***************************************************************************)
StartsWithBr(s, i) == i + 3 <= Len(s) /\ SubSeq(s, i, i + 3) = BR

\* s.split("<br>")
RECURSIVE SegmentsFrom(_, _, _, _)
SegmentsFrom(s, i, cur, acc) ==
    IF i > Len(s) THEN Append(acc, cur)
    ELSE IF StartsWithBr(s, i)
         THEN SegmentsFrom(s, i + 4, <<>>, Append(acc, cur))
         ELSE SegmentsFrom(s, i + 1, Append(cur, s[i]), acc)

Segments(s) == SegmentsFrom(s, 1, <<>>, <<>>)

MarkerCount(s) == Len(Segments(s)) - 1

RECURSIVE WordsOfLines(_)
WordsOfLines(lines) ==
    IF lines = <<>> THEN <<>> ELSE Split(Head(lines)) \o WordsOfLines(Tail(lines))

\* words separated by exactly one space character, nothing around them
SingleSpaced(s) ==
    /\ \A i \in 1..Len(s) : s[i] \in Whitespace => s[i] = " "
    /\ s # <<>> => (s[1] \notin Whitespace /\ s[Len(s)] \notin Whitespace)
    /\ \A i \in 1..(Len(s) - 1) : ~(s[i] \in Whitespace /\ s[i + 1] \in Whitespace)

WrapDone == wrapped # NoValue

(***************************************************************************)
(* Claims about wrap_text                                                  *)
(***************************************************************************)
\* C5: every returned line holding two or more words has a length, the
\* separating spaces included, of at most width.
C5_MultiWordLineWithinWidth ==
    WrapDone =>
        \A k \in 1..Len(Segments(wrapped)) :
            Len(Split(Segments(wrapped)[k])) >= 2 => Len(Segments(wrapped)[k]) <= width

\* C6 as stated: a text no longer than width is returned exactly as given,
\* whatever whitespace it contains.
C6_ShortTextReturnedVerbatim ==
    (WrapDone /\ Len(text) <= width) => wrapped = text

\* C6 amended: a text no longer than width comes back as one line without a
\* line-break marker, holding the words of the text joined by single spaces;
\* it is the text itself whenever the text is already in that form.
C6_ShortTextSingleSpaced ==
    (WrapDone /\ Len(text) <= width) =>
        /\ MarkerCount(wrapped) = 0
        /\ Split(wrapped) = Split(text)
        /\ SingleSpaced(wrapped)
        /\ SingleSpaced(text) => wrapped = text

C6_Witness ==
    /\ WrapDone /\ Len(text) <= width
    /\ Len(Split(text)) >= 2 /\ SingleSpaced(text) /\ wrapped = text

\* C7: the returned label has at most two segments and at most one marker;
\* the segments are the first two lines built by the packing loop, and the
\* words of every later line are dropped.
C7_AtMostTwoLines ==
    WrapDone =>
        LET L == WrapLines(text, width)
            S == Segments(wrapped)
        IN  /\ Len(S) <= 2
            /\ MarkerCount(wrapped) <= 1
            /\ S = IF Len(L) <= 2 THEN L ELSE <<L[1], L[2]>>
            /\ IsPrefix(WordsOfLines(S), Split(text))
            /\ Len(L) <= 2 => WordsOfLines(S) = Split(text)
            /\ Len(L) > 2 => Len(WordsOfLines(S)) < Len(Split(text))

C7_Witness ==
    /\ WrapDone
    /\ Len(WrapLines(text, width)) >= 3
    /\ Len(Segments(wrapped)) = 2
    /\ Segments(wrapped)[1] # <<>>

\* C10: for a text with at least one word the first returned line is not
\* empty: the label does not begin with the marker and begins with the
\* first word of the text.
C10_FirstLineNonEmpty ==
    (WrapDone /\ Split(text) # <<>>) =>
        /\ ~StartsWithBr(wrapped, 1)
        /\ Segments(wrapped)[1] # <<>>
        /\ IsPrefix(Split(text)[1], wrapped)

(***************************************************************************)
(* load_data: text cleanse of Equipment, Department, Service               *)
(* (src/app.py:88-90)                                                      *)
(***************************************************************************)
NaNCell == <<"<NaN>">>      \* a missing cell of the sheet (float nan)
NoneCell == <<"<None>">>    \* a Python None in the column

Unknown == <<"U", "n", "k", "n", "o", "w", "n">>
StrNan == <<"n", "a", "n">>
StrNone == <<"N", "o", "n", "e">>

TextAlphabet == {"n", "a", "W", " ", "\t"}

TextCells ==
    SeqsUpTo(TextAlphabet, MaxCellLen)
        \cup {NaNCell, NoneCell, StrNone, <<" ">> \o StrNone \o <<"\t">>,
              <<" ">> \o StrNan \o <<" ">>, <<"W", "a", "t", "e", "r">>,
              <<" ">> \o Unknown, <<"n", "a", "n", "a">>}

\* astype(str)
AsTypeStr(c) == IF c = NaNCell THEN StrNan ELSE IF c = NoneCell THEN StrNone ELSE c

\* str.strip()
RECURSIVE LStrip(_)
LStrip(s) == IF s # <<>> /\ Head(s) \in Whitespace THEN LStrip(Tail(s)) ELSE s

RECURSIVE RStrip(_)
RStrip(s) ==
    IF s # <<>> /\ s[Len(s)] \in Whitespace THEN RStrip(SubSeq(s, 1, Len(s) - 1)) ELSE s

Strip(s) == RStrip(LStrip(s))

\* the isin list without "None"
EmptyTextsNoNone == {<<>>, StrNan}

\* isin(["", "nan", "None"])
EmptyTexts == {<<>>, StrNan, StrNone}

clean_text(c) ==
    LET stripped == Strip(AsTypeStr(c))
    IN  IF stripped \in EmptyTexts THEN Unknown ELSE stripped

InitText ==
    /\ phase = "input"
    /\ cell \in TextCells
    /\ cleaned = NoValue
    /\ text = NoValue /\ width = 0 /\ wrapped = NoValue
    /\ qtyCell = NoValue /\ priceCell = NoValue /\ rec = NoRecord
    /\ df = <<>> /\ metric = "none" /\ result = <<>>

CleanText ==
    /\ phase = "input"
    /\ cleaned' = clean_text(cell)
    /\ phase' = "done"
    /\ UNCHANGED <<text, width, wrapped, cell, qtyCell, priceCell, rec, df, metric, result>>

NextText == CleanText

SpecText == InitText /\ [][NextText]_vars

\* x is c without the whitespace around it
TrimmedTo(c, x) ==
    \E i \in 0..Len(c) : \E j \in 0..(Len(c) - i) :
        /\ x = SubSeq(c, i + 1, Len(c) - j)
        /\ \A k \in 1..i : c[k] \in Whitespace
        /\ \A k \in (Len(c) - j + 1)..Len(c) : c[k] \in Whitespace
        /\ x # <<>> => (x[1] \notin Whitespace /\ x[Len(x)] \notin Whitespace)

\* C9: a cleansed Equipment/Department/Service value is a non-empty string
\* without surrounding whitespace; a missing cell, a blank cell and a cell
\* reading "nan" or "None" once trimmed become "Unknown", every other cell
\* becomes its text without the surrounding whitespace.
C9_TextNeverEmpty ==
    cleaned # NoValue =>
        /\ cleaned # <<>>
        /\ cleaned[1] \notin Whitespace /\ cleaned[Len(cleaned)] \notin Whitespace
        /\ IF \/ cell \in {NaNCell, NoneCell}
              \/ TrimmedTo(cell, <<>>) \/ TrimmedTo(cell, StrNan) \/ TrimmedTo(cell, StrNone)
           THEN cleaned = Unknown
           ELSE TrimmedTo(cell, cleaned)
        /\ cell = <<"W", "a", "t", "e", "r">> => cleaned = cell

C9_Witness ==
    /\ cleaned = Unknown
    /\ cell = <<" ">> \o StrNone \o <<"\t">>

(***************************************************************************)
(* load_data: clean_numeric and the derived columns (src/app.py:92-102)    *)
(* A number is a fraction [num, den]; NaN is the value pandas gives a      *)
(* string it cannot parse.                                                 *)
(***************************************************************************)
USD_RATE == 1454

Digits == {"0", "1", "2", "3", "4", "5", "6", "7", "8", "9"}

DigitVal(c) ==
    CASE c = "0" -> 0 [] c = "1" -> 1 [] c = "2" -> 2 [] c = "3" -> 3 [] c = "4" -> 4
      [] c = "5" -> 5 [] c = "6" -> 6 [] c = "7" -> 7 [] c = "8" -> 8 [] c = "9" -> 9

NaN == [num |-> 0, den |-> 0]

NumAlphabet == {"0", "7", ".", "-", ",", " ", "$"}

NotableCells ==
    {NaNCell, NoneCell, <<>>, <<"-">>, <<"N", "A">>, StrNan, StrNone, <<"7">>,
     <<"7", ",", "2", "7", "0">>, <<"-", "2", ".", "5">>, <<"1", ".", "2", ".", "3">>,
     <<"$", " ", "1", "4", "5", "4">>, <<"7", "e", "2">>}

NumCells == SeqsUpTo(NumAlphabet, MaxCellLen) \cup NotableCells

\* str.replace(old, ""): every occurrence of the character removed
RECURSIVE RemoveChar(_, _)
RemoveChar(s, ch) ==
    IF s = <<>> THEN <<>>
    ELSE IF Head(s) = ch THEN RemoveChar(Tail(s), ch)
    ELSE <<Head(s)>> \o RemoveChar(Tail(s), ch)

\* col.replace({"NA": "0", "-": "0", "": "0", "nan": "0", "None": "0"})
ReplaceZeroWords(s) ==
    IF s \in {<<"N", "A">>, <<"-">>, <<>>, StrNan, StrNone} THEN <<"0">> ELSE s

\* the character class that also keeps the minus sign: [^\d.-]
NumericCharsSigned == Digits \cup {".", "-"}

\* the characters re.sub(r"[^\d.]", "", x) keeps
NumericChars == Digits \cup {"."}

RECURSIVE KeepNumeric(_)
KeepNumeric(s) ==
    IF s = <<>> THEN <<>>
    ELSE IF Head(s) \in NumericChars THEN <<Head(s)>> \o KeepNumeric(Tail(s))
    ELSE KeepNumeric(Tail(s))

RECURSIVE Pow10(_)
Pow10(n) == IF n = 0 THEN 1 ELSE 10 * Pow10(n - 1)

RECURSIVE DigitsValue(_, _)
DigitsValue(s, acc) ==
    IF s = <<>> THEN acc ELSE DigitsValue(Tail(s), 10 * acc + DigitVal(Head(s)))

DotCount(s) == Cardinality({i \in 1..Len(s) : s[i] = "."})
DigitCount(s) == Cardinality({i \in 1..Len(s) : s[i] \in Digits})
DotPos(s) == CHOOSE i \in 1..Len(s) : s[i] = "."

\* an unsigned decimal literal: digits with at most one point, one digit at least
UnsignedNumeric(s) ==
    IF \/ DigitCount(s) = 0
       \/ DotCount(s) > 1
       \/ \E i \in 1..Len(s) : s[i] \notin Digits \cup {"."}
    THEN NaN
    ELSE [num |-> DigitsValue(RemoveChar(s, "."), 0),
          den |-> IF DotCount(s) = 0 THEN 1 ELSE Pow10(Len(s) - DotPos(s))]

\* pd.to_numeric(x, errors="coerce") of one string: an optional sign, then
\* a decimal literal; anything else is NaN
to_numeric(s) ==
    IF s # <<>> /\ Head(s) \in {"-", "+"}
    THEN LET u == UnsignedNumeric(Tail(s))
         IN  IF u = NaN THEN NaN
             ELSE [num |-> IF Head(s) = "-" THEN 0 - u.num ELSE u.num, den |-> u.den]
    ELSE UnsignedNumeric(s)

\* fillna(0)
FillNa0(x) == IF x = NaN THEN [num |-> 0, den |-> 1] ELSE x

clean_numeric(c) ==
    LET s1 == RemoveChar(RemoveChar(AsTypeStr(c), ","), " ")
        s2 == ReplaceZeroWords(s1)
        s3 == KeepNumeric(s2)
    IN  FillNa0(to_numeric(s3))

Divide(x, k) == [num |-> x.num, den |-> x.den * k]
Times(x, y) == [num |-> x.num * y.num, den |-> x.den * y.den]

\* the four numeric columns of one row
NumericColumns(q, p) ==
    LET quantity == clean_numeric(q)
        rwf == clean_numeric(p)
        unit == Divide(rwf, USD_RATE)
    IN  [Quantity |-> quantity, Unit_Price_RWF |-> rwf,
         Unit_Price |-> unit, Total_Price |-> Times(unit, quantity)]

InitNum ==
    /\ phase = "input"
    /\ qtyCell \in NumCells
    /\ priceCell \in NumCells
    /\ qtyCell \in NotableCells \/ priceCell \in NotableCells
    /\ rec = NoRecord
    /\ text = NoValue /\ width = 0 /\ wrapped = NoValue
    /\ cell = NoValue /\ cleaned = NoValue
    /\ df = <<>> /\ metric = "none" /\ result = <<>>

CleanNumeric ==
    /\ phase = "input"
    /\ rec' = NumericColumns(qtyCell, priceCell)
    /\ phase' = "done"
    /\ UNCHANGED <<text, width, wrapped, cell, cleaned, qtyCell, priceCell, df, metric, result>>

NextNum == CleanNumeric

SpecNum == InitNum /\ [][NextNum]_vars

Finite(x) == x.den > 0
NonNegative(x) == Finite(x) /\ x.num >= 0
IsZero(x) == Finite(x) /\ x.num = 0

\* a cell no number can be read from: missing, no digit at all, or more
\* than one decimal point
Unparseable(c) ==
    c \in {NaNCell, NoneCell} \/ DigitCount(c) = 0 \/ DotCount(c) > 1

\* C8: clean_numeric gives a finite number >= 0 for any cell and exactly 0
\* for a cell no number can be read from, so Quantity, Unit_Price_RWF,
\* Unit_Price and Total_Price are >= 0.
C8_NumericNonNegative ==
    rec # NoRecord =>
        /\ NonNegative(rec.Quantity) /\ NonNegative(rec.Unit_Price_RWF)
        /\ NonNegative(rec.Unit_Price) /\ NonNegative(rec.Total_Price)
        /\ Unparseable(qtyCell) => IsZero(rec.Quantity)
        /\ Unparseable(priceCell) => IsZero(rec.Unit_Price_RWF)
        /\ rec.Unit_Price.num * rec.Unit_Price_RWF.den * USD_RATE
               = rec.Unit_Price_RWF.num * rec.Unit_Price.den

C8_Witness ==
    /\ rec # NoRecord
    /\ qtyCell = <<"-", "2", ".", "5">> /\ rec.Quantity = [num |-> 25, den |-> 10]
    /\ priceCell = <<"-", ".", "-">> /\ IsZero(rec.Unit_Price_RWF)

(***************************************************************************)
(* top10 (src/app.py:166-172)                                              *)
(* A row of df is [label, Quantity, Unit_Price, Total_Price]; a label is   *)
(* the rank of its Equipment_wrapped text in lexicographic order.          *)
(***************************************************************************)
TopN == 10

Metrics == {"Quantity", "Unit_Price", "Total_Price"}

Row(l, q, p) == [label |-> l, Quantity |-> q, Unit_Price |-> p, Total_Price |-> p * q]

\* a sheet already holding ten pieces of equipment, labels 2..11
BaseSheet == [i \in 1..10 |-> Row(i + 1, i + 1, 19 - i)]

InitialSheets == {<<>>, BaseSheet}
NewLabels == {1, 2, 12}
NewValues == {<<0, 9>>, <<3, 9>>, <<3, 17>>}

Range(s) == {s[i] : i \in 1..Len(s)}

MaxOf(S) == CHOOSE x \in S : \A y \in S : y <= x
MinOf(S) == CHOOSE x \in S : \A y \in S : x <= y

\* drop_duplicates("Equipment_wrapped"): the first row of every label, in order
RECURSIVE DropDuplicates(_, _)
DropDuplicates(d, seen) ==
    IF d = <<>> THEN <<>>
    ELSE IF Head(d).label \in seen THEN DropDuplicates(Tail(d), seen)
    ELSE <<Head(d)>> \o DropDuplicates(Tail(d), seen \cup {Head(d).label})

\* the values of column m in the rows of one label, in row order
RECURSIVE ColumnOf(_, _, _)
ColumnOf(d, l, m) ==
    IF d = <<>> THEN <<>>
    ELSE IF Head(d).label = l THEN <<Head(d)[m]>> \o ColumnOf(Tail(d), l, m)
    ELSE ColumnOf(Tail(d), l, m)

\* .max()
AggMax(vals) == MaxOf(Range(vals))

\* .last() in place of .sum()
AggLast(vals) == vals[Len(vals)]

\* .sum()
RECURSIVE AggSum(_)
AggSum(vals) == IF vals = <<>> THEN 0 ELSE Head(vals) + AggSum(Tail(vals))

\* groupby("Equipment_wrapped", as_index=False)[m].agg(): one row per label,
\* in ascending label order
Agg(how, vals) == IF how = "max" THEN AggMax(vals) ELSE AggSum(vals)

RECURSIVE GroupRows(_, _, _, _)
GroupRows(d, labels, m, how) ==
    IF labels = {} THEN <<>>
    ELSE LET l == MinOf(labels)
         IN  <<[label |-> l, value |-> Agg(how, ColumnOf(d, l, m))]>>
                 \o GroupRows(d, labels \ {l}, m, how)

GroupBy(d, m, how) == GroupRows(d, {r.label : r \in Range(d)}, m, how)

\* the orders an ascending sort can leave the rows in
RECURSIVE SortAscending(_)
SortAscending(rows) ==
    IF rows = {} THEN {<<>>}
    ELSE LET low == MinOf({r.value : r \in rows})
         IN  UNION {{<<r>> \o t : t \in SortAscending(rows \ {r})} :
                        r \in {x \in rows : x.value = low}}

\* sort_values(metric, ascending=False) with the default sort kind
\* ("quicksort", not a stable sort): non-increasing values, and rows of
\* equal value in whichever order the sort routine leaves them
RECURSIVE SortDescending(_)
SortDescending(rows) ==
    IF rows = {} THEN {<<>>}
    ELSE LET high == MaxOf({r.value : r \in rows})
         IN  UNION {{<<r>> \o t : t \in SortDescending(rows \ {r})} :
                        r \in {x \in rows : x.value = high}}

\* head(TopN + 1)
HeadOneMore(s) == SubSeq(s, 1, Min(TopN + 1, Len(s)))

\* head(10)
HeadRows(s) == SubSeq(s, 1, Min(TopN, Len(s)))

\* the results top10(d, m) can return
top10(d, m) ==
    IF m = "Unit_Price"
    THEN {HeadRows(s) : s \in SortDescending(Range(GroupBy(DropDuplicates(d, {}), m, "max")))}
    ELSE {HeadRows(s) : s \in SortDescending(Range(GroupBy(d, m, "sum")))}

InitTop ==
    /\ phase = "input"
    /\ df \in InitialSheets
    /\ metric = "none"
    /\ result = <<>>
    /\ text = NoValue /\ width = 0 /\ wrapped = NoValue
    /\ cell = NoValue /\ cleaned = NoValue
    /\ qtyCell = NoValue /\ priceCell = NoValue /\ rec = NoRecord

\* one more row of the sheet
LoadRow ==
    /\ phase = "input"
    /\ Len(df) < Len(BaseSheet) + MaxRows
    /\ Cardinality({i \in 1..Len(df) : df[i] \notin Range(BaseSheet)}) < MaxRows
    /\ \E l \in NewLabels, v \in NewValues : df' = Append(df, Row(l, v[1], v[2]))
    /\ UNCHANGED <<phase, text, width, wrapped, cell, cleaned, qtyCell, priceCell,
                   rec, metric, result>>

Top10 ==
    /\ phase = "input"
    /\ \E m \in Metrics :
           /\ metric' = m
           /\ result' \in top10(df, m)
    /\ phase' = "done"
    /\ UNCHANGED <<text, width, wrapped, cell, cleaned, qtyCell, priceCell, rec, df>>

NextTop == LoadRow \/ Top10

SpecTop == InitTop /\ [][NextTop]_vars

TopDone == metric # "none"

LabelsIn(d) == {d[i].label : i \in 1..Len(d)}
ResultLabels == {result[k].label : k \in 1..Len(result)}
RowsOf(l) == {i \in 1..Len(df) : df[i].label = l}
FirstRowOf(l) == MinOf(RowsOf(l))

RECURSIVE SumOver(_, _)
SumOver(I, m) ==
    IF I = {} THEN 0 ELSE LET i == CHOOSE j \in I : TRUE IN df[i][m] + SumOver(I \ {i}, m)

\* the aggregate the code computes for a label
Aggregate(l, m) ==
    IF m = "Unit_Price" THEN df[FirstRowOf(l)][m] ELSE SumOver(RowsOf(l), m)

(***************************************************************************)
(* Claims about top10                                                      *)
(***************************************************************************)
\* C1: for the metric Unit_Price every returned row carries the maximum
\* Unit_Price over all rows of df with that label.
C1_UnitPriceIsGroupMax ==
    (TopDone /\ metric = "Unit_Price") =>
        \A k \in 1..Len(result) :
            result[k].value = MaxOf({df[i].Unit_Price : i \in RowsOf(result[k].label)})

\* C2: for Quantity and Total_Price every returned row carries the sum of
\* the metric over all rows of df with that label.
C2_OtherMetricsAreGroupSum ==
    (TopDone /\ metric # "Unit_Price") =>
        \A k \in 1..Len(result) :
            result[k].value = SumOver(RowsOf(result[k].label), metric)

C2_Witness ==
    /\ TopDone /\ metric = "Total_Price"
    /\ \E k \in 1..Len(result) :
           /\ Cardinality(RowsOf(result[k].label)) >= 2
           /\ result[k].value > MaxOf({df[i].Total_Price : i \in RowsOf(result[k].label)})

\* C3: top10 returns min(10, number of distinct labels) rows, at most 10,
\* no label twice, and nothing for an empty df.
C3_SizeBound ==
    TopDone =>
        /\ Len(result) <= 10
        /\ Len(result) = Min(10, Cardinality(LabelsIn(df)))
        /\ Cardinality(ResultLabels) = Len(result)
        /\ ResultLabels \subseteq LabelsIn(df)
        /\ df = <<>> => result = <<>>

C3_Witness ==
    /\ TopDone
    /\ Cardinality(LabelsIn(df)) > 10
    /\ Len(result) = 10

\* C4 as stated: rows come by aggregated value descending, and of two
\* groups with equal value the one met first in df comes first, both in
\* the order of the rows and in the choice of the rows kept.
C4_TiesByFirstEncounter ==
    TopDone =>
        /\ \A j, k \in 1..Len(result) :
               j < k =>
                 \/ result[j].value > result[k].value
                 \/ /\ result[j].value = result[k].value
                    /\ FirstRowOf(result[j].label) < FirstRowOf(result[k].label)
        /\ \A l \in LabelsIn(df) \ ResultLabels : \A k \in 1..Len(result) :
                 \/ result[k].value > Aggregate(l, metric)
                 \/ /\ result[k].value = Aggregate(l, metric)
                    /\ FirstRowOf(result[k].label) < FirstRowOf(l)

\* C4 amended: rows come by aggregated value descending (non-increasing),
\* and no group left out has a larger aggregated value than a row kept;
\* the order among groups of equal value is not fixed by their first
\* occurrence in df.
C4_DescendingAndCut ==
    TopDone =>
        /\ \A j, k \in 1..Len(result) : j < k => result[j].value >= result[k].value
        /\ \A l \in LabelsIn(df) \ ResultLabels : \A k \in 1..Len(result) :
                 result[k].value >= Aggregate(l, metric)
        /\ \A k \in 1..Len(result) : result[k].value = Aggregate(result[k].label, metric)

C4_Witness ==
    /\ TopDone
    /\ Cardinality(LabelsIn(df)) > 10
    /\ \E l \in LabelsIn(df) \ ResultLabels : Aggregate(l, metric) = result[Len(result)].value
    /\ \E k \in 1..(Len(result) - 1) : result[k].value > result[k + 1].value

====
